---------------------------- MODULE Spec2Model ----------------------------
(***************************************************************************)
(* Model of x/erc20/types/params.go: the ERC-20 module parameters, their   *)
(* construction (NewParams, DefaultParams), validation (Validate,          *)
(* ValidatePrecompiles, validatePrecompilesUniqueness) and the membership  *)
(* predicates (IsNativePrecompile, IsDynamicPrecompile).                   *)
(*                                                                         *)
(* A Go string is a sequence of byte values (ASCII codes), compared byte   *)
(* by byte as Go compares strings.  A []string is a reference to a backing *)
(* array held in `heap`: two slices made from the same array alias, so an  *)
(* in-place sort through one is seen through the other.                    *)
(***************************************************************************)
EXTENDS Integers, Sequences, FiniteSets, TLC

\* Width of an address in bytes.  go-ethereum's common.AddressLength is 20;
\* the model keeps the algorithms and scales the width down.
AddressLength == 1

\* Largest total number of strings in the caller's two lists.
MaxLen == 2

(***************************************************************************)
(* Strings and hex                                                         *)
(***************************************************************************)

\* Go's s < t on strings: byte-wise lexicographic, a proper prefix is less.
StrLess(s, t) ==
    \E k \in 1..(Len(t)) :
        /\ \A j \in 1..(k - 1) : j <= Len(s) /\ s[j] = t[j]
        /\ \/ k = Len(s) + 1
           \/ k <= Len(s) /\ s[k] < t[k]

\* Value of one hex character ('0'-'9', 'a'-'f', 'A'-'F'), -1 for any other.
HexVal(c) ==
    IF c \in 48..57 THEN c - 48
    ELSE IF c \in 97..102 THEN c - 87
    ELSE IF c \in 65..70 THEN c - 55
    ELSE -1

isHexCharacter(c) == HexVal(c) >= 0

\* "0x" or "0X" in front.
has0xPrefix(s) == Len(s) >= 2 /\ s[1] = 48 /\ (s[2] = 120 \/ s[2] = 88)

StripPrefix(s) == IF has0xPrefix(s) THEN SubSeq(s, 3, Len(s)) ELSE s

\* common.IsHexAddress: an optional 0x prefix, then exactly 2*AddressLength
\* hex characters.
IsHexAddress(s) ==
    LET h == StripPrefix(s)
    IN  /\ Len(h) = 2 * AddressLength
        /\ \A i \in 1..Len(h) : isHexCharacter(h[i])

\* hex.DecodeString as common.Hex2Bytes uses it: the bytes decoded before the
\* first character that is not hex (the error is dropped).
RECURSIVE DecodePairs(_)
DecodePairs(h) ==
    IF Len(h) < 2 \/ ~isHexCharacter(h[1]) \/ ~isHexCharacter(h[2])
    THEN <<>>
    ELSE <<16 * HexVal(h[1]) + HexVal(h[2])>> \o DecodePairs(SubSeq(h, 3, Len(h)))

\* common.FromHex: the prefix stripped, an odd number of digits padded with
\* a leading '0', then decoded.
FromHex(s) ==
    LET h == StripPrefix(s)
    IN  DecodePairs(IF Len(h) % 2 = 1 THEN <<48>> \o h ELSE h)

\* common.BytesToAddress: the last AddressLength bytes, zero-padded on the left.
BytesToAddress(b) ==
    LET c == IF Len(b) > AddressLength
             THEN SubSeq(b, Len(b) - AddressLength + 1, Len(b))
             ELSE b
    IN  [i \in 1..AddressLength |->
            IF i <= AddressLength - Len(c) THEN 0 ELSE c[i - (AddressLength - Len(c))]]

\* common.HexToAddress: the canonical fixed-width binary form of a string.
HexToAddress(s) == BytesToAddress(FromHex(s))

\* One lower-case hex digit.
HexDigit(v) == IF v < 10 THEN 48 + v ELSE 87 + v

\* The lower-case hex digits of an address, two per byte.
LowerHex(a) ==
    [i \in 1..(2 * Len(a)) |->
        IF i % 2 = 1 THEN HexDigit(a[(i + 1) \div 2] \div 16)
        ELSE HexDigit(a[i \div 2] % 16)]

RECURSIVE SumSeq(_)
SumSeq(s) == IF s = <<>> THEN 0 ELSE s[1] + SumSeq(Tail(s))

\* The nibble of the checksum hash that decides the case of digit i.  The
\* code hashes the lower-case digits with Keccak-256; the model keeps what
\* matters of it: a deterministic function of the digits and the position.
ChecksumNibble(digits, i) == (SumSeq(digits) * 7 + i * 5) % 16

\* Address.Hex: "0x" and the EIP-55 checksummed digits (a letter is upper
\* case when its checksum nibble is above 7).
Hex(a) ==
    LET d == LowerHex(a)
    IN  <<48, 120>> \o
        [i \in 1..Len(d) |->
            IF d[i] > 57 /\ ChecksumNibble(d, i) > 7 THEN d[i] - 32 ELSE d[i]]

(***************************************************************************)
(* Errors and dynamically typed values                                     *)
(***************************************************************************)

\* An error value: its kind and what the message names.
Err(kind, str, list, addr) == [kind |-> kind, str |-> str, list |-> list, addr |-> addr]

Nil == Err("nil", <<>>, <<>>, <<>>)

\* An interface{} value: a bool, a []string or a []common.Address.
BoolVal(b) == [type |-> "bool", b |-> b, l |-> <<>>]
StringsVal(l) == [type |-> "[]string", b |-> FALSE, l |-> l]
AddrsVal(l) == [type |-> "[]common.Address", b |-> FALSE, l |-> l]

\* types.ValidateAddress: fails iff the string is not a hex address.
ValidateAddress(s) ==
    IF IsHexAddress(s) THEN Nil ELSE Err("ErrInvalidAddress", s, <<>>, <<>>)

ValidateBool(i) ==
    IF i.type = "bool" THEN Nil ELSE Err("TypeMismatch", <<>>, <<>>, <<>>)

(***************************************************************************)
(* slices.Sort and slices.IsSorted on []string                             *)
(***************************************************************************)

\* The inner loop of the insertion sort: x moves left past every element
\* it is less than.
RECURSIVE InsertLeft(_, _)
InsertLeft(sorted, x) ==
    IF sorted # <<>> /\ StrLess(x, sorted[Len(sorted)])
    THEN Append(InsertLeft(SubSeq(sorted, 1, Len(sorted) - 1), x), sorted[Len(sorted)])
    ELSE Append(sorted, x)

RECURSIVE SortFrom(_, _)
SortFrom(done, rest) ==
    IF rest = <<>> THEN done
    ELSE SortFrom(InsertLeft(done, Head(rest)), Tail(rest))

\* Mutant: the comparison is the wrong way round, the result descends.
Sort_Descending(x) ==
    LET a == SortFrom(<<>>, x)
    IN  [i \in 1..Len(a) |-> a[Len(a) + 1 - i]]

\* slices.Sort: ascending; for lists this short the library sorts by insertion.
Sort(x) == SortFrom(<<>>, x)

\* slices.IsSorted: no element is less than its predecessor.
IsSorted(x) == \A i \in 2..Len(x) : ~StrLess(x[i], x[i - 1])

(***************************************************************************)
(* Validation                                                              *)
(***************************************************************************)

\* The loop of ValidatePrecompiles over the elements from position i on:
\* the first malformed string ends it.
RECURSIVE ValidateEach(_, _, _)
ValidateEach(precompiles, i, precAddrs) ==
    IF i > Len(precompiles) THEN [addrs |-> precAddrs, err |-> Nil]
    ELSE IF ValidateAddress(precompiles[i]) # Nil
         THEN [addrs |-> <<>>, err |-> Err("InvalidAddress", precompiles[i], <<>>, <<>>)]
         ELSE ValidateEach(precompiles, i + 1,
                           Append(precAddrs, HexToAddress(precompiles[i])))

\* Mutant: the ordering check is left out.
ValidatePrecompiles_NoSortCheck(i) ==
    IF i.type # "[]string"
    THEN [addrs |-> <<>>, err |-> Err("TypeMismatch", <<>>, <<>>, <<>>)]
    ELSE ValidateEach(i.l, 1, <<>>)

\* Mutant: the ordering check comes before the address checks.
ValidatePrecompiles_SortFirst(i) ==
    IF i.type # "[]string"
    THEN [addrs |-> <<>>, err |-> Err("TypeMismatch", <<>>, <<>>, <<>>)]
    ELSE IF ~IsSorted(i.l)
         THEN [addrs |-> <<>>, err |-> Err("UnsortedPrecompiles", <<>>, i.l, <<>>)]
         ELSE ValidateEach(i.l, 1, <<>>)

ValidatePrecompiles(i) ==
    IF i.type # "[]string"
    THEN [addrs |-> <<>>, err |-> Err("TypeMismatch", <<>>, <<>>, <<>>)]
    ELSE LET r == ValidateEach(i.l, 1, <<>>)
         IN  IF r.err # Nil THEN r
             ELSE IF ~IsSorted(i.l)
                  THEN [addrs |-> <<>>, err |-> Err("UnsortedPrecompiles", <<>>, i.l, <<>>)]
                  ELSE r

\* The loop of validatePrecompilesUniqueness from position i on, with the
\* checksummed strings seen so far.
RECURSIVE UniqueFrom(_, _, _)
UniqueFrom(precompiles, i, seenPrecompiles) ==
    IF i > Len(precompiles) THEN Nil
    ELSE IF Hex(precompiles[i]) \in seenPrecompiles
         THEN Err("DuplicatePrecompile", <<>>, <<>>, precompiles[i])
         ELSE UniqueFrom(precompiles, i + 1, seenPrecompiles \cup {Hex(precompiles[i])})

\* Mutant: an address is never added to the set of those seen.
validatePrecompilesUniqueness_NoInsert(i) ==
    IF i.type # "[]common.Address" THEN Err("TypeMismatch", <<>>, <<>>, <<>>)
    ELSE Nil

validatePrecompilesUniqueness(i) ==
    IF i.type # "[]common.Address" THEN Err("TypeMismatch", <<>>, <<>>, <<>>)
    ELSE UniqueFrom(i.l, 1, {})

\* Mutant: the dynamic list is validated before the native list.
Validate_DynamicFirst(q) ==
    LET dp == ValidatePrecompiles(StringsVal(q.DynamicPrecompiles))
    IN  IF dp.err # Nil THEN dp.err
        ELSE LET np == ValidatePrecompiles(StringsVal(q.NativePrecompiles))
             IN  IF np.err # Nil THEN np.err
                 ELSE validatePrecompilesUniqueness(AddrsVal(dp.addrs \o np.addrs))

\* Params.Validate on a Params value whose two lists are given by content.
Validate(q) ==
    IF ValidateBool(BoolVal(q.EnableErc20)) # Nil
    THEN ValidateBool(BoolVal(q.EnableErc20))
    ELSE LET np == ValidatePrecompiles(StringsVal(q.NativePrecompiles))
         IN  IF np.err # Nil THEN np.err
             ELSE LET dp == ValidatePrecompiles(StringsVal(q.DynamicPrecompiles))
                  IN  IF dp.err # Nil THEN dp.err
                      ELSE IF ValidateBool(BoolVal(q.PermissionlessRegistration)) # Nil
                           THEN ValidateBool(BoolVal(q.PermissionlessRegistration))
                           ELSE validatePrecompilesUniqueness(AddrsVal(dp.addrs \o np.addrs))

(***************************************************************************)
(* Membership                                                              *)
(***************************************************************************)

\* Mutant: the stored strings are compared with the checksummed string.
isAddrIncluded_ByString(addr, strAddrs) ==
    \E i \in 1..Len(strAddrs) : strAddrs[i] = Hex(addr)

\* The loop of isAddrIncluded from position i on.
RECURSIVE IncludedFrom(_, _, _)
IncludedFrom(addr, strAddrs, i) ==
    IF i > Len(strAddrs) THEN FALSE
    ELSE IF addr = HexToAddress(strAddrs[i]) THEN TRUE
         ELSE IncludedFrom(addr, strAddrs, i + 1)

\* isAddrIncluded: some stored string converts to the bytes of addr.
isAddrIncluded(addr, strAddrs) == IncludedFrom(addr, strAddrs, 1)

(***************************************************************************)
(* Inputs                                                                  *)
(***************************************************************************)

\* Hex digits padded with leading '0' to the width of an address.
Pad(tail) == [i \in 1..(2 * AddressLength - Len(tail)) |-> 48] \o tail

Str01 == <<48, 120>> \o Pad(<<49>>)        \* "0x0..01"
StrUpperA == <<48, 120>> \o Pad(<<65>>)    \* "0x0..0A"
StrLowerA == <<48, 120>> \o Pad(<<97>>)    \* "0x0..0a", the same address
StrNotHex == <<48, 120>> \o Pad(<<103>>)   \* "0x0..0g", not hex
StrShort == <<48, 120, 49>>                \* "0x1", too short

Strings == {Str01, StrUpperA, StrLowerA, StrNotHex, StrShort}

ListsUpTo(n) == UNION {[1..k -> Strings] : k \in 0..n}

\* The addresses a caller asks the membership predicates about.
Addresses == {HexToAddress(s) : s \in Strings}

\* The configurations of the two default lists at process start: as the
\* package declares them (empty), valid, unsorted, and one address in both.
DefaultConfigs ==
    { <<<<>>, <<>>>>,
      <<<<Str01>>, <<StrLowerA>>>>,
      <<<<StrLowerA, Str01>>, <<>>>>,
      <<<<StrUpperA>>, <<StrLowerA>>>> }

\* The flags a caller passes to NewParams or finds in a stored record.
Flags == {<<TRUE, FALSE>>, <<FALSE, TRUE>>}

(***************************************************************************)
(* State                                                                   *)
(***************************************************************************)

VARIABLES
    heap,    \* backing array of each slice: its strings in order
    p,       \* the Params value last built: flags, and the two slices
    built,   \* how p was built
    reordered,  \* whether building p changed the order of a list it was given
    call     \* the last call: its arguments as passed and what it returned

vars == <<heap, p, built, reordered, call>>

\* The nil slice, the two package-level default lists, the caller's two lists.
Slots == {"nil", "defN", "defD", "a1", "a2"}

DefaultNativePrecompiles == "defN"
DefaultDynamicPrecompiles == "defD"

\* The slices a caller passes as native and as dynamic list: its own two,
\* the package defaults, or one slice for both.
ListArgs ==
    { <<"a1", "a2">>,
      <<DefaultNativePrecompiles, DefaultDynamicPrecompiles>>,
      <<"a1", "a1">> }

Params(e, n, d, r) ==
    [EnableErc20 |-> e, NativePrecompiles |-> n,
     DynamicPrecompiles |-> d, PermissionlessRegistration |-> r]

\* p with each slice replaced by the content of its backing array in h.
Deref(h, q) == Params(q.EnableErc20, h[q.NativePrecompiles],
                      h[q.DynamicPrecompiles], q.PermissionlessRegistration)

Call(op, slotN, slotD, inN, inD, err, addrs, ok, addr) ==
    [op |-> op, slotN |-> slotN, slotD |-> slotD, inN |-> inN, inD |-> inD,
     err |-> err, addrs |-> addrs, ok |-> ok, addr |-> addr]

Init ==
    /\ \E a1 \in ListsUpTo(MaxLen), a2 \in ListsUpTo(MaxLen), def \in DefaultConfigs :
        /\ Len(a1) + Len(a2) <= MaxLen
        /\ heap = [s \in Slots |->
                    CASE s = "a1" -> a1
                      [] s = "a2" -> a2
                      [] s = "defN" -> def[1]
                      [] s = "defD" -> def[2]
                      [] OTHER -> <<>>]
    /\ p = Params(FALSE, "nil", "nil", FALSE)
    /\ built = "zero"
    /\ reordered = FALSE
    /\ call = Call("none", "nil", "nil", <<>>, <<>>, Nil, <<>>, FALSE, <<>>)

(***************************************************************************)
(* Operations                                                              *)
(***************************************************************************)

\* Mutant: the dynamic list is not sorted.
NewParams_NativeOnly(h, enableErc20, nativePrecompiles, dynamicPrecompiles, permissionlessRegistration) ==
    [heap |-> [h EXCEPT ![nativePrecompiles] = Sort(@)],
     ret |-> Params(enableErc20, nativePrecompiles, dynamicPrecompiles,
                    permissionlessRegistration)]

\* NewParams: both lists sorted in place, native first, then the record.
NewParams(h, enableErc20, nativePrecompiles, dynamicPrecompiles, permissionlessRegistration) ==
    LET h1 == [h EXCEPT ![nativePrecompiles] = Sort(@)]
        h2 == [h1 EXCEPT ![dynamicPrecompiles] = Sort(@)]
    IN  [heap |-> h2,
         ret |-> Params(enableErc20, nativePrecompiles, dynamicPrecompiles,
                        permissionlessRegistration)]

\* Mutant: the two default lists are exchanged.
DefaultParams_Swapped ==
    Params(TRUE, DefaultDynamicPrecompiles, DefaultNativePrecompiles, TRUE)

DefaultParams ==
    Params(TRUE, DefaultNativePrecompiles, DefaultDynamicPrecompiles, TRUE)

NewParamsCall ==
    \E f \in Flags, l \in ListArgs :
        LET n == l[1]
            d == l[2]
            r == NewParams(heap, f[1], n, d, f[2])
        IN  /\ heap' = r.heap
            /\ p' = r.ret
            /\ built' = "NewParams"
            /\ reordered' = (r.heap # heap)
            /\ call' = Call("NewParams", n, d, heap[n], heap[d], Nil, <<>>, FALSE, <<>>)

DefaultParamsCall ==
    /\ p' = DefaultParams
    /\ built' = "DefaultParams"
    /\ reordered' = FALSE
    /\ call' = Call("DefaultParams", "nil", "nil", <<>>, <<>>, Nil, <<>>, FALSE, <<>>)
    /\ UNCHANGED heap

\* A Params record put together field by field (a literal, or a record the
\* parameter store decoded): nothing is sorted or checked.
ParamsLiteral ==
    \E f \in Flags, l \in ListArgs :
        /\ p' = Params(f[1], l[1], l[2], f[2])
        /\ built' = "literal"
        /\ reordered' = FALSE
        /\ call' = Call("literal", l[1], l[2], heap[l[1]], heap[l[2]], Nil, <<>>, FALSE, <<>>)
        /\ UNCHANGED heap

ValidateCall ==
    /\ call' = Call("Validate", p.NativePrecompiles, p.DynamicPrecompiles,
                    heap[p.NativePrecompiles], heap[p.DynamicPrecompiles],
                    Validate(Deref(heap, p)), <<>>, FALSE, <<>>)
    /\ UNCHANGED <<heap, p, built, reordered>>

\* ValidatePrecompiles on one of the lists, or on a value of another type.
ValidatePrecompilesCall ==
    \/ \E s \in {"a1"} :
        LET r == ValidatePrecompiles(StringsVal(heap[s]))
        IN  /\ call' = Call("ValidatePrecompiles", s, "nil", heap[s], <<>>,
                            r.err, r.addrs, FALSE, <<>>)
            /\ UNCHANGED <<heap, p, built, reordered>>
    \/ LET r == ValidatePrecompiles(BoolVal(TRUE))
       IN  /\ call' = Call("ValidatePrecompiles", "nil", "nil", <<>>, <<>>,
                           r.err, r.addrs, FALSE, <<>>)
           /\ UNCHANGED <<heap, p, built, reordered>>

IsNativePrecompile(h, q, addr) == isAddrIncluded(addr, h[q.NativePrecompiles])

IsDynamicPrecompile(h, q, addr) == isAddrIncluded(addr, h[q.DynamicPrecompiles])

IsNativePrecompileCall ==
    \E addr \in Addresses :
        /\ call' = Call("IsNativePrecompile", p.NativePrecompiles, p.DynamicPrecompiles,
                        heap[p.NativePrecompiles], heap[p.DynamicPrecompiles],
                        Nil, <<>>, IsNativePrecompile(heap, p, addr), addr)
        /\ UNCHANGED <<heap, p, built, reordered>>

IsDynamicPrecompileCall ==
    \E addr \in Addresses :
        /\ call' = Call("IsDynamicPrecompile", p.NativePrecompiles, p.DynamicPrecompiles,
                        heap[p.NativePrecompiles], heap[p.DynamicPrecompiles],
                        Nil, <<>>, IsDynamicPrecompile(heap, p, addr), addr)
        /\ UNCHANGED <<heap, p, built, reordered>>

Next ==
    \/ NewParamsCall
    \/ DefaultParamsCall
    \/ ParamsLiteral
    \/ ValidateCall
    \/ ValidatePrecompilesCall
    \/ IsNativePrecompileCall
    \/ IsDynamicPrecompileCall

Spec == Init /\ [][Next]_vars

(***************************************************************************)
(* Vocabulary of the properties                                            *)
(***************************************************************************)

\* A well-formed address is a string the address validator accepts.
WellFormed(s) == ValidateAddress(s) = Nil

AllWellFormed(l) == \A i \in 1..Len(l) : WellFormed(l[i])

\* The canonical (checksummed) form of a string.
Canonical(s) == Hex(HexToAddress(s))

StrictlyAscending(l) == \A i \in 1..(Len(l) - 1) : StrLess(l[i], l[i + 1])

\* Some element is less than its predecessor.
HasDescent(l) == \E i \in 1..(Len(l) - 1) : StrLess(l[i + 1], l[i])

NoDuplicates(l) == \A i, j \in 1..Len(l) : i < j => Canonical(l[i]) # Canonical(l[j])

\* Two positions of l hold the same address, whatever the spelling.
SameAddressTwice(l) ==
    \E i, j \in 1..Len(l) : i < j /\ HexToAddress(l[i]) = HexToAddress(l[j])

\* The three validity invariants of a Params value.
ValidLists(n, d) ==
    /\ AllWellFormed(n) /\ AllWellFormed(d)
    /\ StrictlyAscending(n) /\ StrictlyAscending(d)
    /\ NoDuplicates(n \o d)

FirstMalformed(l) ==
    l[CHOOSE i \in 1..Len(l) :
        ~WellFormed(l[i]) /\ \A j \in 1..(i - 1) : WellFormed(l[j])]

\* The error the checks of one list are expected to end with.
ListFails(l) == ~AllWellFormed(l) \/ HasDescent(l)

ListError(l) ==
    IF ~AllWellFormed(l) THEN Err("InvalidAddress", FirstMalformed(l), <<>>, <<>>)
    ELSE Err("UnsortedPrecompiles", <<>>, l, <<>>)

Count(l, x) == Cardinality({i \in 1..Len(l) : l[i] = x})

SameBag(a, b) == Len(a) = Len(b) /\ \A x \in Strings : Count(a, x) = Count(b, x)

Swap(l, i, j) == [l EXCEPT ![i] = l[j], ![j] = l[i]]

\* The lists that differ from l by exchanging two elements, and l itself.
Swaps(l) == {l} \cup {Swap(l, i, j) : i, j \in 1..Len(l)}

ReadOnlyOps == {"Validate", "ValidatePrecompiles", "IsNativePrecompile", "IsDynamicPrecompile"}

(***************************************************************************)
(* Properties                                                              *)
(***************************************************************************)

\* C1: Validate returns nil if and only if every string of both lists is a
\* well-formed address, each list is in strict ascending order of its raw
\* strings, and the canonical forms of all entries together hold no duplicate.
C1_ValidateIffValid ==
    call.op = "Validate" => (call.err = Nil <=> ValidLists(call.inN, call.inD))

\* Validate accepted a record, built field by field, with both lists non-empty.
C1_Witness ==
    /\ call.op = "Validate" /\ built = "literal"
    /\ call.err = Nil
    /\ Len(call.inN) >= 1 /\ Len(call.inD) >= 1

C3_DuplicateRejected ==
    (/\ call.op = "Validate" /\ built = "NewParams"
     /\ AllWellFormed(call.inN) /\ AllWellFormed(call.inD)
     /\ SameAddressTwice(call.inN \o call.inD))
    => call.err.kind = "DuplicatePrecompile"

\* The same address spelled differently in the native and the dynamic list.
C3_Witness ==
    /\ call.op = "Validate" /\ built = "NewParams"
    /\ call.slotN # call.slotD
    /\ \E i \in 1..Len(call.inN), j \in 1..Len(call.inD) :
        /\ WellFormed(call.inN[i]) /\ WellFormed(call.inD[j])
        /\ call.inN[i] # call.inD[j]
        /\ HexToAddress(call.inN[i]) = HexToAddress(call.inD[j])
    /\ call.err.kind = "DuplicatePrecompile"

\* C4: on a Params that passes Validate, the canonical address of every
\* native entry is a native and not a dynamic precompile, and the canonical
\* address of every dynamic entry is a dynamic and not a native precompile.
C4_MembershipOfStored ==
    (Validate(Params(p.EnableErc20, call.inN, call.inD, p.PermissionlessRegistration)) = Nil)
    =>
    /\ call.op = "IsNativePrecompile" =>
        /\ (\E i \in 1..Len(call.inN) : call.addr = HexToAddress(call.inN[i])) => call.ok
        /\ (\E i \in 1..Len(call.inD) : call.addr = HexToAddress(call.inD[i])) => ~call.ok
    /\ call.op = "IsDynamicPrecompile" =>
        /\ (\E i \in 1..Len(call.inD) : call.addr = HexToAddress(call.inD[i])) => call.ok
        /\ (\E i \in 1..Len(call.inN) : call.addr = HexToAddress(call.inN[i])) => ~call.ok

\* A native entry stored in a spelling other than the checksummed one is found.
C4_Witness ==
    /\ call.op = "IsNativePrecompile"
    /\ Validate(Deref(heap, p)) = Nil
    /\ Len(call.inD) >= 1
    /\ \E i \in 1..Len(call.inN) :
        call.addr = HexToAddress(call.inN[i]) /\ call.inN[i] # Hex(call.addr)
    /\ call.ok

\* C5: NewParams stores each list ascending with the strings it was given,
\* each as often as given; the same lists given in another order are stored
\* the same; NewParams on the stored lists changes nothing.
C5_SortedSameStrings ==
    call.op = "NewParams" =>
        LET n == call.slotN
            d == call.slotD
            pre == [heap EXCEPT ![n] = call.inN, ![d] = call.inD]
        IN  /\ p.NativePrecompiles = n /\ p.DynamicPrecompiles = d
            /\ ~HasDescent(heap[n]) /\ ~HasDescent(heap[d])
            /\ SameBag(heap[n], call.inN) /\ SameBag(heap[d], call.inD)
            /\ \A sN \in Swaps(call.inN), sD \in Swaps(call.inD) :
                NewParams([pre EXCEPT ![n] = sN, ![d] = sD], p.EnableErc20, n, d,
                          p.PermissionlessRegistration)
                  = [heap |-> heap, ret |-> p]
            /\ NewParams(heap, p.EnableErc20, n, d, p.PermissionlessRegistration)
                  = [heap |-> heap, ret |-> p]

\* NewParams was given two lists and put at least one of them in order.
C5_Witness ==
    /\ call.op = "NewParams"
    /\ HasDescent(call.inD)
    /\ call.slotN # call.slotD
    /\ heap[call.slotD] # call.inD

\* The input lists of C6: well-formed, canonical forms pairwise distinct.
C6_Pre(n, d) == AllWellFormed(n) /\ AllWellFormed(d) /\ NoDuplicates(n \o d)

\* C6: NewParams on lists of well-formed addresses with pairwise distinct
\* canonical forms, in any order, gives a Params that Validate accepts.
C6_NewParamsValidates ==
    /\ (call.op = "NewParams" /\ C6_Pre(call.inN, call.inD))
          => Validate(Deref(heap, p)) = Nil
    /\ (call.op = "Validate" /\ built = "NewParams" /\ C6_Pre(call.inN, call.inD))
          => call.err = Nil

\* Validate accepted a Params whose list NewParams had to reorder.
C6_Witness ==
    /\ call.op = "Validate" /\ built = "NewParams" /\ reordered
    /\ Len(call.inN) + Len(call.inD) >= 2
    /\ call.err = Nil

\* C7 as stated: DefaultParams().Validate() returns nil whatever the default
\* lists were configured to be.
C7_Original ==
    (call.op = "Validate" /\ built = "DefaultParams") => call.err = Nil

\* C7 amended: DefaultParams returns both flags true with the two default
\* lists as stored, and its Validate returns nil exactly when those lists, as
\* they stand, satisfy the validity invariants (the empty lists do).
C7_DefaultParams ==
    /\ built = "DefaultParams" =>
          p = Params(TRUE, DefaultNativePrecompiles, DefaultDynamicPrecompiles, TRUE)
    /\ (call.op = "Validate" /\ built = "DefaultParams") =>
          /\ call.inN = heap[DefaultNativePrecompiles]
          /\ call.inD = heap[DefaultDynamicPrecompiles]
          /\ call.err = Nil <=>
                ValidLists(heap[DefaultNativePrecompiles], heap[DefaultDynamicPrecompiles])
          /\ (call.inN = <<>> /\ call.inD = <<>>) => call.err = Nil

\* Validate accepted the default Params with non-empty default lists.
C7_Witness ==
    /\ call.op = "Validate" /\ built = "DefaultParams"
    /\ call.inN # <<>> /\ call.inD # <<>>
    /\ call.inN # call.inD
    /\ call.err = Nil

\* C8 as stated: on well-formed strings ValidatePrecompiles fails with
\* UnsortedPrecompiles whenever some element is not strictly less than its
\* successor, and on success returns the canonical addresses in input order.
C8_Original ==
    (call.op = "ValidatePrecompiles" /\ AllWellFormed(call.inN)) =>
        /\ ~StrictlyAscending(call.inN) => call.err.kind = "UnsortedPrecompiles"
        /\ call.err = Nil =>
              call.addrs = [i \in 1..Len(call.inN) |-> HexToAddress(call.inN[i])]

\* C9: on a list with a malformed string ValidatePrecompiles fails with
\* InvalidAddress naming the first malformed string, sorted or not, and
\* returns no addresses.
C9_FirstMalformedNamed ==
    (call.op = "ValidatePrecompiles" /\ ~AllWellFormed(call.inN)) =>
        /\ call.err = Err("InvalidAddress", FirstMalformed(call.inN), <<>>, <<>>)
        /\ call.addrs = <<>>

\* Two different malformed strings in descending order: the first is named.
C9_Witness ==
    /\ call.op = "ValidatePrecompiles"
    /\ Len(call.inN) = 2
    /\ ~WellFormed(call.inN[1]) /\ ~WellFormed(call.inN[2])
    /\ StrLess(call.inN[2], call.inN[1])
    /\ call.err.kind = "InvalidAddress" /\ call.err.str = call.inN[1]

\* One step of C10: a list changes only by being passed to NewParams, and
\* keeps its strings; the read-only operations change nothing; the default
\* lists keep content and order.
C10_Step ==
    /\ \A s \in Slots :
        heap'[s] # heap[s] =>
            /\ call'.op = "NewParams"
            /\ s \in {call'.slotN, call'.slotD}
            /\ SameBag(heap'[s], heap[s])
    /\ call'.op \in ReadOnlyOps => heap' = heap /\ p' = p
    /\ heap'[DefaultNativePrecompiles] = heap[DefaultNativePrecompiles]
    /\ heap'[DefaultDynamicPrecompiles] = heap[DefaultDynamicPrecompiles]

\* C10 as stated: only the lists passed to NewParams are ever modified
\* (reordered, nothing added or removed), Validate, ValidatePrecompiles and
\* the membership predicates change nothing, and the process-wide default
\* lists keep the content and order they were configured with.
C10_Original == [][C10_Step]_vars

====
